---- MODULE Spec2Model ----
(***************************************************************************)
(* A model of bigbang's Archive (src/bigbang/archive.py): construction     *)
(* (normalisation of the message table), the cached activity matrix,       *)
(* entity resolution and thread reconstruction.                            *)
(*                                                                         *)
(* A table (pandas DataFrame) is a sequence of rows; a row is a record     *)
(* with the columns Message-ID (id), From, Date and In-Reply-To            *)
(* (InReplyTo).  Time is counted in ticks; a day has TicksPerDay ticks.    *)
(* The columns References and Body are left out: no operation modelled     *)
(* here reads them.                                                        *)
(*                                                                         *)
(* Node and Thread (bigbang/thread.py) and resolve_sender_entities         *)
(* (bigbang/process.py) are modelled from the specification's description  *)
(* of them.                                                                *)
(*                                                                         *)
(* ListservMessage (src/bigbang/listserv_crawl.py) is modelled next to it: *)
(* from_url reads one message page of a LISTSERV archive, to_dict turns    *)
(* the message into a dictionary.  get_name, get_addr and get_date         *)
(* (bigbang/listserv.py) are modelled as functions that return a string.   *)
(*                                                                         *)
(* find_footer (src/bigbang/archive.py) is modelled whole.  The bodies are  *)
(* not: utils.get_common_head is not in the sources, and what it returns   *)
(* for each adjacent pair of bodies is an input of the model.  A string is *)
(* the sequence of its characters and a character is a number, its code    *)
(* point.                                                                  *)
(***************************************************************************)
EXTENDS Integers, Sequences, FiniteSets, TLC

VARIABLES
    input,     \* the table as the caller built it, before Archive(df) is called
    df,        \* the caller's table object, the argument of Archive(df)
    dfcolumns, \* df.columns: the names of the columns of the caller's table
    phase,     \* "new": not constructed; "ready": constructed; "failed": __init__ raised
    data,      \* Archive.data
    activity,  \* Archive.activity
    entities,  \* Archive.entities
    threads,   \* Archive.threads
    raised,    \* the exception the last call raised, "none" if it returned
    now,       \* the process clock, datetime.datetime.now(pytz.utc)
    aliases,   \* process.resolve_sender_entities: the canonical identity of each sender
    page,      \* the message page a LISTSERV archive serves under the url
    msg,       \* the ListservMessage the last call of from_url returned
    fetched,   \* the pages the last call of from_url requested, in order
    dic,       \* the dictionary the last call of to_dict returned
    messages,  \* find_footer: the type of the argument messages
    seriesorder, \* whether the installed pandas has Series.order (before 0.20)
    heads,     \* find_footer: what get_common_head returns, pair after pair
    tally,     \* find_footer: counts when the tally of lines 382-398 is done
    number,    \* find_footer: the argument number
    counts,    \* find_footer: counts when the function ends
    candidates \* find_footer: the list it returned

archvars == <<input, df, dfcolumns, phase, data, activity, entities, threads, now, aliases>>
lsvars == <<page, msg, fetched, dic>>
footvars == <<messages, seriesorder, heads, tally, number, counts, candidates>>
vars == <<input, df, dfcolumns, phase, data, activity, entities, threads, raised, now,
          aliases,
          page, msg, fetched, dic,
          messages, seriesorder, heads, tally, number, counts, candidates>>

----------------------------------------------------------------------------
(* Bounds of the model *)

MaxRows == 2        \* rows of an input table (specification Spec)
ActivityTableRows == 2   \* rows of an input table (specification SpecActivity)
ThreadRows == 3     \* rows of an input table (specification SpecThreads)
MaxTime == 2        \* instants are 0..MaxTime
TicksPerDay == 2    \* ticks in one calendar day
Now0 == 1           \* the clock when the program starts
MaxPairs == 5       \* adjacent pairs of bodies find_footer compares

MsgIds == {"m1", "m2"}
ThreadIds == {"m1", "m2", "m3"}
ReplyTargets == {"m1", "m2", "m5"}   \* "m5" is the id of no record
Senders == {"a", "b"}
Sentinel == "None"   \* the no-parent value of In-Reply-To

\* the columns of a message table that the Archive reads
Columns == {"Message-ID", "From", "Date", "In-Reply-To"}

\* Python's None, and a value that is not None
None == [some |-> FALSE]
Some(v) == [some |-> TRUE, val |-> v]

----------------------------------------------------------------------------
(* Date cells.  A raw cell is absent, an unparseable string, or a string   *)
(* giving a local time and a UTC offset; a converted cell is a UTC         *)
(* Timestamp or NaT.                                                       *)

NoDate == [kind |-> "absent", local |-> 0, off |-> 0]
BadDate == [kind |-> "garbage", local |-> 0, off |-> 0]
DateStr(l, o) == [kind |-> "str", local |-> l, off |-> o]
NaT == [kind |-> "NaT", local |-> 0, off |-> 0]
Timestamp(t) == [kind |-> "ts", local |-> t, off |-> 0]

RawDates ==
    {NoDate, BadDate} \cup {DateStr(t, 0) : t \in 0..MaxTime} \cup {DateStr(1, 1)}

\* pd.to_datetime(cell, errors="coerce", utc=True)
ToDatetime(c) ==
    IF c.kind = "str" THEN Timestamp(c.local - c.off)
    ELSE IF c.kind = "ts" THEN c
    ELSE NaT

IsNull(c) == c.kind \in {"NaT", "absent"}

----------------------------------------------------------------------------
(* Tables *)

Row(i, f, d, r) == [id |-> i, From |-> f, Date |-> d, InReplyTo |-> r]

RECURSIVE TablesOf(_, _)
\* every table of at most n rows drawn from the set rows
TablesOf(rows, n) ==
    IF n = 0 THEN {<<>>}
    ELSE LET shorter == TablesOf(rows, n - 1)
         IN  shorter \cup {Append(t, r) : t \in {s \in shorter : Len(s) = n - 1}, r \in rows}

\* input tables of specification Spec: ids, senders and dates vary
NormRows == {Row(i, f, d, Sentinel) : i \in MsgIds, f \in Senders, d \in RawDates}

\* input tables of specification SpecActivity: senders and dates vary; the
\* activity matrix reads no Message-ID
ActivityRows == {Row("m1", f, d, Sentinel) : f \in Senders, d \in RawDates}

\* what a row holds in the place of a column its table does not have
NoCell == "-"

\* input tables of specification SpecSchema: the table may lack the column
\* Message-ID or the column Date
SchemaColumnSets == {Columns \ S : S \in SUBSET {"Message-ID", "Date"}}

SchemaRows(cols) ==
    {Row(i, "a", d, Sentinel) :
        i \in (IF "Message-ID" \in cols THEN MsgIds ELSE {NoCell}),
        d \in (IF "Date" \in cols THEN {BadDate, DateStr(0, 0), DateStr(1, 0)} ELSE {NoDate})}

\* input tables of specification SpecThreads: ids and reply references vary
ThreadRowSet ==
    {Row(i, "a", DateStr(0, 0), r) : i \in ThreadIds, r \in {Sentinel} \cup ReplyTargets}

----------------------------------------------------------------------------
(* Archive.__init__ *)

\* self.data["Date"] = pd.to_datetime(self.data["Date"], errors="coerce", utc=True)
ConvertDates(tab) == [i \in 1..Len(tab) |-> [tab[i] EXCEPT !.Date = ToDatetime(@)]]

RECURSIVE DropDuplicatesById(_)
\* DropDuplicates if it compared the Message-ID alone (subset=["Message-ID"])
DropDuplicatesById(tab) ==
    IF tab = <<>> THEN <<>>
    ELSE LET front == DropDuplicatesById(SubSeq(tab, 1, Len(tab) - 1))
             last == tab[Len(tab)]
         IN  IF \E i \in 1..Len(front) : front[i].id = last.id THEN front
             ELSE Append(front, last)

RECURSIVE DropDuplicates(_)
\* DataFrame.drop_duplicates(): of rows equal in every column the first is kept
DropDuplicates(tab) ==
    IF tab = <<>> THEN <<>>
    ELSE LET front == DropDuplicates(SubSeq(tab, 1, Len(tab) - 1))
             last == tab[Len(tab)]
         IN  IF \E i \in 1..Len(front) : front[i] = last THEN front
             ELSE Append(front, last)

\* DropNullDates if one undated row made it give up the whole table
DropNullDatesOrAll(tab) ==
    IF \E i \in 1..Len(tab) : IsNull(tab[i].Date) THEN <<>> ELSE tab

\* self.data[self.data["Date"].notnull()]
DropNullDates(tab) == SelectSeq(tab, LAMBDA r : ~IsNull(r.Date))

\* row["Date"] < datetime.datetime.now(pytz.utc) raises for a value that is
\* no timezone-aware Timestamp; the result of the comparison is not used
ComparisonRaises(c) == c.kind # "ts"

\* BadIndices if the loop also collected the rows the comparison finds in the future
BadIndicesAndFuture(tab) ==
    {tab[i].id : i \in {j \in 1..Len(tab) : \/ ComparisonRaises(tab[j].Date)
                                            \/ ~(tab[j].Date.local < now)}}

\* the index labels (Message-IDs) collected in bad_indices
BadIndices(tab) == {tab[i].id : i \in {j \in 1..Len(tab) : ComparisonRaises(tab[j].Date)}}

\* self.data.drop(bad_indices): drops every row carrying one of the labels
DropLabels(tab, labels) == SelectSeq(tab, LAMBDA r : r.id \notin labels)

\* SortByDate without the sort
SortByDateSkipped(tab) == tab

RECURSIVE SortByDate(_)
\* self.data.sort_values(by="Date"): ascending; rows of equal Date keep their
\* order (numpy sorts arrays this short by insertion)
SortByDate(tab) ==
    IF tab = <<>> THEN <<>>
    ELSE LET front == SortByDate(SubSeq(tab, 1, Len(tab) - 1))
             last == tab[Len(tab)]
             k == Cardinality({i \in 1..Len(front) : front[i].Date.local <= last.Date.local})
         IN  SubSeq(front, 1, k) \o <<last>> \o SubSeq(front, k + 1, Len(front))

\* the table self.data is bound to when __init__ reaches line 130
Normalize(tab) ==
    LET deduped == DropDuplicates(ConvertDates(tab))
        dated == DropNullDates(deduped)
        good == DropLabels(dated, BadIndices(dated))
    IN  SortByDate(good)

\* the default index of a DataFrame: a row is labelled by its position in the
\* table as the caller built it, counted from 0
RangeIndex(tab) == [i \in 1..Len(tab) |-> [tab[i] EXCEPT !.id = ToString(i - 1)]]

\* the table self.data is bound to at line 130 if the table has no column
\* Message-ID: set_index raises KeyError, lines 95-96 pass over it, and the
\* rows keep the labels of the default index
NormalizeUnindexed(tab) ==
    LET conv == ConvertDates(tab)
        first == {i \in 1..Len(conv) : \A j \in 1..(i - 1) : conv[j] # conv[i]}
        deduped == SelectSeq(RangeIndex(conv), LAMBDA r : r.id \in {ToString(i - 1) : i \in first})
        dated == DropNullDates(deduped)
        good == DropLabels(dated, BadIndices(dated))
    IN  SortByDate(good)

\* IsEmpty if the check of line 130 were missing
IsEmptyUnchecked(tab) == FALSE

\* self.data.empty
IsEmpty(tab) == tab = <<>>

\* Archive(df): lines 53-73 work on the caller's object, which keeps the
\* converted Date column and loses its duplicate rows.  Without a column
\* Date, self.data["Date"] raises KeyError at line 57 and line 70 raises
\* ArchiveWarning
Construct ==
    /\ phase = "new"
    /\ IF "Date" \notin dfcolumns
       THEN /\ df' = df
            /\ phase' = "failed"
            /\ raised' = "ArchiveWarning"
            /\ data' = <<>>
       ELSE /\ df' = DropDuplicates(ConvertDates(df))
            /\ LET result == IF "Message-ID" \in dfcolumns THEN Normalize(df)
                             ELSE NormalizeUnindexed(df)
               IN  IF IsEmpty(result)
                   THEN /\ phase' = "failed"
                        /\ raised' = "MissingDataException"
                        /\ data' = <<>>
                   ELSE /\ phase' = "ready"
                        /\ raised' = "none"
                        /\ data' = result
    /\ UNCHANGED <<input, dfcolumns, activity, entities, threads, now>>
    /\ UNCHANGED aliases
    /\ UNCHANGED lsvars
    /\ UNCHANGED footvars

----------------------------------------------------------------------------
(* The activity matrix *)

\* Timestamp.toordinal(): the calendar day of an instant
ToOrdinal(c) == c.local \div TicksPerDay

\* mdf[mdf["Date"] < datetime.datetime.now(pytz.utc)], the clock reading t
NotInFuture(tab, t) == SelectSeq(tab, LAMBDA r : ~IsNull(r.Date) /\ r.Date.local < t)

SetMin(S) == CHOOSE x \in S : \A y \in S : x <= y
SetMax(S) == CHOOSE x \in S : \A y \in S : y <= x

\* with no row left, min() and max() of the day column are NaN and np.arange raises
ComputeActivityRaises(tab, t) == NotInFuture(tab, t) = <<>>

\* np.arange(mdf2["Date"].min(), mdf2["Date"].max()): the last day is not in it
DateRange(lo, hi) == lo..(hi - 1)

\* Archive.compute_activity: rows are the days of DateRange, columns the senders,
\* a cell the number of messages of the sender on the day
ComputeActivity(tab, t) ==
    LET mdf == NotInFuture(tab, t)
        days == {ToOrdinal(mdf[i].Date) : i \in 1..Len(mdf)}
        index == DateRange(SetMin(days), SetMax(days))
        columns == {mdf[i].From : i \in 1..Len(mdf)}
    IN  [index |-> index,
         columns |-> columns,
         cell |-> [p \in index \X columns |->
                     Cardinality({i \in 1..Len(mdf) :
                                    /\ ToOrdinal(mdf[i].Date) = p[1]
                                    /\ mdf[i].From = p[2]})]]

\* the canonical-entity-ids process.resolve_sender_entities can give: the
\* strings of the model
EntityIds == Senders

\* the ways it can map the sender strings to canonical identities; an identity
\* need not be one of its own aliases
AliasMaps == [Senders -> EntityIds]

\* AliasMaps up to the exchange of the two sender strings: without the map of
\* both to "b", the mirror image of the map of both to "a"
AliasMapsUpToNames == AliasMaps \ {[s \in Senders |-> "b"]}

\* no two senders are aliases and each is its own identity
NoAliases == [s \in Senders |-> s]

\* process.resolve_sender_entities(activity): a dict from each
\* canonical-entity-id to the list of the raw sender strings (columns of the
\* matrix) that alias to it
ResolveSenderEntities(act) ==
    [e \in {aliases[s] : s \in act.columns} |-> {s \in act.columns : aliases[s] = e}]

\* the lists to_replace and value of resolve_entities, as pairs
ReplacePairs(ent) ==
    {p \in (UNION {ent[k] : k \in DOMAIN ent}) \X DOMAIN ent : p[1] \in ent[p[2]]}

\* one cell under DataFrame.replace(to_replace, value)
ReplaceCell(v, ent) ==
    IF \E p \in ReplacePairs(ent) : p[1] = v
    THEN (CHOOSE p \in ReplacePairs(ent) : p[1] = v)[2]
    ELSE v

\* self.data.replace(to_replace=to_replace, value=value): every column but the index
Replace(tab, ent) ==
    [i \in 1..Len(tab) |-> [tab[i] EXCEPT !.From = ReplaceCell(@, ent),
                                          !.InReplyTo = ReplaceCell(@, ent)]]

\* the fields of the Archive the activity calls read and write
Fields(d, a, e) == [data |-> d, activity |-> a, entities |-> e, raised |-> "none"]

\* get_activity, lines 269-270: the matrix is computed if none is cached
CachedActivity(s, t) ==
    IF s.activity # None THEN s
    ELSE IF ComputeActivityRaises(s.data, t) THEN [s EXCEPT !.raised = "Exception"]
    ELSE [s EXCEPT !.activity = Some(ComputeActivity(s.data, t))]

\* get_activity, lines 272-278: resolved=True replaces self.entities; the
\* repartitioned matrix is returned and not kept
GetActivityOutcomes(s, t, resolved) ==
    LET s1 == CachedActivity(s, t)
    IN  IF s1.raised # "none" \/ ~resolved THEN {s1}
        ELSE {[s1 EXCEPT !.entities = Some(ResolveSenderEntities(s1.activity.val))]}

\* EnsureEntities if the mapping were computed anew by every call
EnsureEntitiesUncached(s, t) ==
    LET s1 == CachedActivity(s, t)
    IN  IF s1.raised # "none" THEN {s1}
        ELSE {[s1 EXCEPT !.entities = Some(ResolveSenderEntities(s1.activity.val))]}

\* resolve_entities, lines 229-233: the mapping is computed once and kept
EnsureEntities(s, t) ==
    IF s.entities # None THEN {s}
    ELSE LET s1 == CachedActivity(s, t)
         IN  IF s1.raised # "none" THEN {s1}
             ELSE {[s1 EXCEPT !.entities = Some(ResolveSenderEntities(s1.activity.val))]}

\* ReplaceAndRebuild if self.activity = None were missing, so that get_activity
\* found the matrix of before the replacement
ReplaceAndRebuildNoClear(s, t, inplace) ==
    LET replaced == IF inplace THEN Replace(s.data, s.entities.val) ELSE s.data
    IN  CachedActivity([s EXCEPT !.data = replaced], t)

\* resolve_entities, lines 235-249: replace the aliases, then clear and
\* rebuild the matrix
ReplaceAndRebuild(s, t, inplace) ==
    LET replaced == IF inplace THEN Replace(s.data, s.entities.val) ELSE s.data
    IN  CachedActivity([s EXCEPT !.data = replaced, !.activity = None], t)

\* Archive.resolve_entities(inplace): the states it can end in.  The call
\* reads the clock up to twice: at t1 when get_activity builds the matrix the
\* mapping is resolved from (line 231), and at t2 when get_activity rebuilds
\* the matrix after the replacement (line 249)
ResolveOutcomes(s, t1, t2, inplace) ==
    {IF s1.raised # "none" THEN s1 ELSE ReplaceAndRebuild(s1, t2, inplace) :
       s1 \in EnsureEntities(s, t1)}

\* the call ends in the state o
Ends(o) ==
    /\ data' = o.data
    /\ activity' = o.activity
    /\ entities' = o.entities
    /\ raised' = o.raised

\* Archive.get_activity(resolved)
GetActivityCall(resolved) ==
    /\ phase = "ready"
    /\ UNCHANGED <<input, df, dfcolumns, phase, threads, now>>
    /\ UNCHANGED aliases
    /\ UNCHANGED lsvars
    /\ UNCHANGED footvars
    /\ \E o \in GetActivityOutcomes(Fields(data, activity, entities), now, resolved) : Ends(o)

GetActivity == \E resolved \in BOOLEAN : GetActivityCall(resolved)

\* the readings of the clock line 249 can make in a call of resolve_entities
\* that starts at the reading t: any reading from t on if the clock was read
\* at line 231 before, which is when neither the mapping nor the matrix is
\* cached; t itself if line 249 makes the only reading of the call
SecondReadings(s, t) ==
    IF s.entities = None /\ s.activity = None THEN t..(MaxTime + 1) ELSE {t}

\* Archive.resolve_entities(inplace): the clock may pass between the reading
\* of line 231 and the reading of line 249, at which the call ends; a call
\* in which compute_activity raises ends at that reading
ResolveEntitiesCall(inplace) ==
    /\ phase = "ready"
    /\ UNCHANGED <<input, df, dfcolumns, phase, threads>>
    /\ UNCHANGED aliases
    /\ UNCHANGED lsvars
    /\ UNCHANGED footvars
    /\ \E t2 \in SecondReadings(Fields(data, activity, entities), now) :
         \E o \in ResolveOutcomes(Fields(data, activity, entities), now, t2, inplace) :
            /\ Ends(o)
            /\ now' = IF o.raised # "none" THEN now ELSE t2

ResolveEntities == \E inplace \in BOOLEAN : ResolveEntitiesCall(inplace)

----------------------------------------------------------------------------
(* Threads.  The nodes of a forest are kept in a sequence in the order of  *)
(* their creation and are referred to by their position in it; 0 is no     *)
(* node.                                                                   *)

\* bigbang.thread.Node(ID, data, parent)
Node(ID, rowdata, parent) ==
    [id |-> ID, data |-> rowdata, parent |-> parent, successors |-> <<>>]

\* bigbang.thread.Node.add_successor: nodes[p].add_successor(nodes[c])
AddSuccessor(nodes, p, c) == [nodes EXCEPT ![p].successors = Append(@, c)]

\* bigbang.thread.Thread(root, known_root)
Thread(root, known_root) == [root |-> root, known_root |-> known_root]

\* get_threads before the loop: threads = list(); visited = dict()
EmptyForest == [nodes |-> <<>>, threads |-> <<>>, visited |-> <<>>]

\* Visit if an id that is in visited kept the node it has (setdefault)
VisitKeepFirst(visited, key, node) ==
    IF key \in DOMAIN visited THEN visited ELSE (key :> node) @@ visited

\* visited[key] = node
Visit(visited, key, node) == (key :> node) @@ visited

\* NewRoot if visited[i[0]] = root were missing
NewRootNotVisited(st, row) ==
    LET root == Len(st.nodes) + 1
    IN  [nodes |-> Append(st.nodes, Node(row.id, Some(row), 0)),
         visited |-> st.visited,
         threads |-> Append(st.threads, Thread(root, TRUE))]

\* lines 332-334: the record has no parent
NewRoot(st, row) ==
    LET root == Len(st.nodes) + 1
    IN  [nodes |-> Append(st.nodes, Node(row.id, Some(row), 0)),
         visited |-> Visit(st.visited, row.id, root),
         threads |-> Append(st.threads, Thread(root, TRUE))]

\* NewPlaceholderThread if succ were created without its parent
NewPlaceholderThreadNoParent(st, row) ==
    LET root == Len(st.nodes) + 1
        succ == Len(st.nodes) + 2
        made == st.nodes \o <<Node(row.InReplyTo, None, 0), Node(row.id, Some(row), 0)>>
    IN  [nodes |-> AddSuccessor(made, root, succ),
         visited |-> Visit(Visit(st.visited, row.InReplyTo, root), row.id, succ),
         threads |-> Append(st.threads, Thread(root, FALSE))]

\* NewPlaceholderThread if the thread were made as Thread(root), a thread of
\* known root
NewPlaceholderThreadKnown(st, row) ==
    LET root == Len(st.nodes) + 1
        succ == Len(st.nodes) + 2
        made == st.nodes \o <<Node(row.InReplyTo, None, 0), Node(row.id, Some(row), root)>>
    IN  [nodes |-> AddSuccessor(made, root, succ),
         visited |-> Visit(Visit(st.visited, row.InReplyTo, root), row.id, succ),
         threads |-> Append(st.threads, Thread(root, TRUE))]

\* lines 336-342: the record replies to an id that is not in visited
NewPlaceholderThread(st, row) ==
    LET root == Len(st.nodes) + 1
        succ == Len(st.nodes) + 2
        made == st.nodes \o <<Node(row.InReplyTo, None, 0), Node(row.id, Some(row), root)>>
    IN  [nodes |-> AddSuccessor(made, root, succ),
         visited |-> Visit(Visit(st.visited, row.InReplyTo, root), row.id, succ),
         threads |-> Append(st.threads, Thread(root, FALSE))]

\* AttachToKnown if parent.add_successor(node) were missing
AttachToKnownNoSuccessor(st, row) ==
    LET parent == st.visited[row.InReplyTo]
        node == Len(st.nodes) + 1
    IN  [nodes |-> Append(st.nodes, Node(row.id, Some(row), parent)),
         visited |-> Visit(st.visited, row.id, node),
         threads |-> st.threads]

\* AttachToKnown if the new node were put in front of the children of its parent
AttachToKnownPrepend(st, row) ==
    LET parent == st.visited[row.InReplyTo]
        node == Len(st.nodes) + 1
        made == Append(st.nodes, Node(row.id, Some(row), parent))
    IN  [nodes |-> [made EXCEPT ![parent].successors = <<node>> \o @],
         visited |-> Visit(st.visited, row.id, node),
         threads |-> st.threads]

\* lines 344-347: the record replies to an id that is in visited
AttachToKnown(st, row) ==
    LET parent == st.visited[row.InReplyTo]
        node == Len(st.nodes) + 1
    IN  [nodes |-> AddSuccessor(Append(st.nodes, Node(row.id, Some(row), parent)), parent, node),
         visited |-> Visit(st.visited, row.id, node),
         threads |-> st.threads]

\* ThreadStep if a record whose id is the id of a placeholder in visited were
\* put into that placeholder instead of getting a node
ThreadStepBackfill(st, row) ==
    IF row.id \in DOMAIN st.visited /\ st.nodes[st.visited[row.id]].data = None
    THEN [st EXCEPT !.nodes[st.visited[row.id]].data = Some(row)]
    ELSE IF row.InReplyTo = Sentinel THEN NewRoot(st, row)
    ELSE IF row.InReplyTo \notin DOMAIN st.visited THEN NewPlaceholderThread(st, row)
    ELSE AttachToKnown(st, row)

\* the body of the loop of get_threads, lines 331-347
ThreadStep(st, row) ==
    IF row.InReplyTo = Sentinel THEN NewRoot(st, row)
    ELSE IF row.InReplyTo \notin DOMAIN st.visited THEN NewPlaceholderThread(st, row)
    ELSE AttachToKnown(st, row)

RECURSIVE BuildThreads(_)
\* the loop of get_threads over df.iterrows(), lines 316-347
BuildThreads(tab) ==
    IF tab = <<>> THEN EmptyForest
    ELSE ThreadStep(BuildThreads(SubSeq(tab, 1, Len(tab) - 1)), tab[Len(tab)])

\* CachedThreads if lines 313-314 were missing and every call built the forest
CachedThreadsRebuilt(cached, tab) ==
    LET st == BuildThreads(tab)
    IN  Some([nodes |-> st.nodes, threads |-> st.threads])

\* get_threads, lines 313-314 and 349-351: the forest kept in self.threads is
\* returned if there is one; otherwise it is built and kept
CachedThreads(cached, tab) ==
    IF cached # None THEN cached
    ELSE LET st == BuildThreads(tab)
         IN  Some([nodes |-> st.nodes, threads |-> st.threads])

\* Archive.get_threads: the forest is built on the first call and kept
GetThreads ==
    /\ phase = "ready"
    /\ threads' = CachedThreads(threads, data)
    /\ raised' = "none"
    /\ UNCHANGED <<input, df, dfcolumns, phase, data, activity, entities, now>>
    /\ UNCHANGED aliases
    /\ UNCHANGED lsvars
    /\ UNCHANGED footvars

\* time passes
Tick ==
    /\ now <= MaxTime
    /\ now' = now + 1
    /\ UNCHANGED <<input, df, dfcolumns, phase, data, activity, entities, threads, raised>>
    /\ UNCHANGED aliases
    /\ UNCHANGED lsvars
    /\ UNCHANGED footvars

----------------------------------------------------------------------------
(* ListservMessage.  A message page is the lines of its header table, by   *)
(* the name before the colon, and what the link to the plain-text part of  *)
(* the message leads to.                                                   *)

\* the names of header lines a page can show; "Sender" stands for a line
\* that from_url has no parameter for
LineNames == {"Subject", "From", "Reply-To", "Date", "Content-Type", "Sender"}

\* the link to the plain-text part: missing, leading to a page without a
\* <pre> element, or leading to a page with one
PlainParts == {"nolink", "nopre", "pre"}

Pages == {[lines |-> [n \in S |-> "x"], plain |-> p] : S \in SUBSET LineNames, p \in PlainParts}

\* the parameters of ListservMessage.__init__ that from_url passes by keyword
HeaderKeys == {"Subject", "FromName", "FromAddr", "ToName", "ToAddr", "Date", "ContentType"}

\* str.strip() of the text of a line, or the text of an element
Text(v) == [fn |-> "text", of |-> v]
\* listserv.get_name(v).strip()
GetName(v) == [fn |-> "get_name", of |-> v]
\* listserv.get_addr(v)
GetAddr(v) == [fn |-> "get_addr", of |-> v]
\* listserv.get_date(v)
GetDate(v) == [fn |-> "get_date", of |-> v]

\* ListservMessage.get_header(soup): the dictionary it returns or the
\* exception it raises
GetHeader(pg) ==
    LET names == DOMAIN pg.lines
        keys == (names \ {"From", "Reply-To", "Content-Type"})
                  \cup {"FromName", "FromAddr", "ToName", "ToAddr", "Date", "ContentType"}
    IN  IF "Subject" \notin names THEN [raised |-> "AttributeError", header |-> <<>>]
        ELSE IF ~({"From", "Reply-To", "Date", "Content-Type"} \subseteq names)
        THEN [raised |-> "KeyError", header |-> <<>>]
        ELSE [raised |-> "none",
              header |-> [k \in keys |->
                 CASE k = "FromName" -> Some(GetName(pg.lines["From"]))
                   [] k = "FromAddr" -> Some(GetAddr(pg.lines["From"]))
                   [] k = "ToName" -> Some(GetName(pg.lines["Reply-To"]))
                   [] k = "ToAddr" -> Some(GetAddr(pg.lines["Reply-To"]))
                   [] k = "Date" -> Some(GetDate(pg.lines["Date"]))
                   [] k = "ContentType" -> Some(Text(pg.lines["Content-Type"]))
                   [] OTHER -> Some(Text(pg.lines[k]))]]

\* ListservMessage.get_body(list_name, url, soup): the text it returns or
\* the exception it raises, and the pages it requests
GetBody(pg) ==
    CASE pg.plain = "nolink" -> [raised |-> "IndexError", body |-> None, fetched |-> <<>>]
      [] pg.plain = "nopre" -> [raised |-> "AttributeError", body |-> None, fetched |-> <<"plain">>]
      [] OTHER -> [raised |-> "none", body |-> Some(Text("pre")), fetched |-> <<"plain">>]

\* FromUrl if the selector were ignored and header and body were always read
FromUrlAlwaysTotal(pg, fields) ==
    LET h == GetHeader(pg)
        b == GetBody(pg)
    IN  IF h.raised # "none"
        THEN [raised |-> h.raised, msg |-> None, fetched |-> <<"message">>]
        ELSE IF b.raised # "none"
        THEN [raised |-> b.raised, msg |-> None, fetched |-> <<"message">> \o b.fetched]
        ELSE IF DOMAIN h.header # HeaderKeys
        THEN [raised |-> "TypeError", msg |-> None, fetched |-> <<"message">> \o b.fetched]
        ELSE [raised |-> "none",
              msg |-> Some(("Body" :> b.body) @@ h.header),
              fetched |-> <<"message">> \o b.fetched]

\* ListservMessage.from_url(list_name, url, fields): the message it returns
\* or the exception it raises, and the pages it requests.  cls(body, **header)
\* raises TypeError for a keyword that __init__ has no parameter for
FromUrl(pg, fields) ==
    LET h == IF fields \in {"header", "total"} THEN GetHeader(pg)
             ELSE [raised |-> "none", header |-> [k \in HeaderKeys |-> None]]
        b == IF fields \in {"body", "total"} THEN GetBody(pg)
             ELSE [raised |-> "none", body |-> None, fetched |-> <<>>]
    IN  IF h.raised # "none"
        THEN [raised |-> h.raised, msg |-> None, fetched |-> <<"message">>]
        ELSE IF b.raised # "none"
        THEN [raised |-> b.raised, msg |-> None, fetched |-> <<"message">> \o b.fetched]
        ELSE IF DOMAIN h.header # HeaderKeys
        THEN [raised |-> "TypeError", msg |-> None, fetched |-> <<"message">> \o b.fetched]
        ELSE [raised |-> "none",
              msg |-> Some(("Body" :> b.body) @@ h.header),
              fetched |-> <<"message">> \o b.fetched]

\* ListservMessage.to_dict()
ToDict(m) ==
    [k \in {"Body", "Subject", "FromName", "FromAddr", "ToName", "ToAddr", "Date", "ContentType"}
       |-> m[k]]

\* the values of the argument fields; "other" stands for every string that
\* is none of the three the code compares with
FieldsArgs == {"header", "body", "total", "other"}

\* msg = ListservMessage.from_url(list_name, url, fields)
FromUrlCall(fields) ==
    /\ LET r == FromUrl(page, fields)
       IN  /\ msg' = r.msg
           /\ fetched' = r.fetched
           /\ raised' = r.raised
    /\ UNCHANGED <<page, dic>>
    /\ UNCHANGED archvars
    /\ UNCHANGED footvars

FromUrlAny == \E fields \in FieldsArgs : FromUrlCall(fields)

\* dic = msg.to_dict()
ToDictCall ==
    /\ msg # None
    /\ dic' = Some(ToDict(msg.val))
    /\ raised' = "none"
    /\ UNCHANGED <<page, msg, fetched>>
    /\ UNCHANGED archvars
    /\ UNCHANGED footvars

\* no message page is read
NoListserv ==
    /\ page = [lines |-> <<>>, plain |-> "nolink"]
    /\ msg = None
    /\ fetched = <<>>
    /\ dic = None

----------------------------------------------------------------------------
(* find_footer.  The dictionary counts is the sequence of its items        *)
(* [key, count] in the order of insertion.  The characters are " " (0),    *)
(* "a" (1) and "b" (2).                                                    *)

\* the types of the argument messages: the signature names DataFrame and
\* ndarray, the docstring DataFrame and Series
MessageKinds == {"DataFrame", "Series", "ndarray"}

\* the values of the argument number
Numbers == {-1, 0, 1, 2}

\* the characters str.strip() removes
Whitespace == {0}

\* what utils.get_common_head(b, last, delimiter="\n") returns in the model,
\* a common head of two reversed bodies: "", "a", "b", " ba", "baa "
RawHeads == {<<>>, <<1>>, <<2>>, <<0, 2, 1>>, <<2, 1, 1, 0>>}

\* line 371: messages.apply(...).order() raises AttributeError if messages is
\* an ndarray, which has no apply, or if Series has no order
ReversedSortRaises(kind, hasorder) == kind = "ndarray" \/ ~hasorder

\* head[::-1]
Reverse(s) == [i \in 1..Len(s) |-> s[Len(s) + 1 - i]]

RECURSIVE Strip(_)
\* foot.strip()
Strip(s) ==
    IF s = <<>> THEN s
    ELSE IF Head(s) \in Whitespace THEN Strip(Tail(s))
    ELSE IF s[Len(s)] \in Whitespace THEN Strip(SubSeq(s, 1, Len(s) - 1))
    ELSE s

\* clean_footer(foot)
CleanFooter(foot) == Strip(foot)

\* s < t for two strings: the first character that differs decides, and a
\* proper prefix is the smaller
StrLess(s, t) ==
    \E i \in 1..(Len(t)) :
        /\ i <= Len(s) + 1
        /\ SubSeq(s, 1, i - 1) = SubSeq(t, 1, i - 1)
        /\ i = Len(s) + 1 \/ s[i] < t[i]

\* foot1 in foot2
IsSubstring(foot1, foot2) ==
    \E i \in 1..(Len(foot2) - Len(foot1) + 1) : SubSeq(foot2, i, i + Len(foot1) - 1) = foot1

\* (v1, k1) > (v2, k2) for two tuples of a count and a string
TupleGreater(a, b) == a.count > b.count \/ (a.count = b.count /\ StrLess(b.key, a.key))

RECURSIVE SortedReverse(_)
\* sorted([(v, k) for k, v in list(counts.items())], reverse=True)
SortedReverse(items) ==
    IF items = <<>> THEN <<>>
    ELSE LET front == SortedReverse(SubSeq(items, 1, Len(items) - 1))
             last == items[Len(items)]
             k == Cardinality({i \in 1..Len(front) : TupleGreater(front[i], last)})
         IN  SubSeq(front, 1, k) \o <<last>> \o SubSeq(front, k + 1, Len(front))

\* key in counts
HasKey(d, key) == \E i \in 1..Len(d) : d[i].key = key

\* counts[key]
GetCount(d, key) == d[CHOOSE i \in 1..Len(d) : d[i].key = key].count

\* counts[key] = v for a key of the dictionary
SetCount(d, key, v) == [i \in 1..Len(d) |-> IF d[i].key = key THEN [d[i] EXCEPT !.count = v] ELSE d[i]]

\* del counts[key]
DelKey(d, key) == SelectSeq(d, LAMBDA it : it.key # key)

\* FoldInto if the test of line 405 compared the count foot1 has by now
\* instead of the count n it had when the candidates were sorted
FoldIntoCurrentCount(st, n, foot1, item) ==
    IF st.raised # "none" THEN st
    ELSE IF HasKey(st.counts, foot1) /\ GetCount(st.counts, foot1) > item.count
            /\ IsSubstring(foot1, item.key) /\ Len(foot1) > 0
    THEN IF ~HasKey(st.counts, item.key)
         THEN [st EXCEPT !.raised = "KeyError"]
         ELSE [st EXCEPT !.counts =
                 DelKey(SetCount(st.counts, foot1,
                                 GetCount(st.counts, foot1) + GetCount(st.counts, item.key)),
                        item.key)]
    ELSE st

\* lines 405-407, the body of the inner loop for the item (foot2, m): reading
\* counts[foot1] or counts[foot2] raises KeyError if the key was deleted
FoldInto(st, n, foot1, item) ==
    IF st.raised # "none" THEN st
    ELSE IF n > item.count /\ IsSubstring(foot1, item.key) /\ Len(foot1) > 0
    THEN IF ~HasKey(st.counts, foot1) \/ ~HasKey(st.counts, item.key)
         THEN [st EXCEPT !.raised = "KeyError"]
         ELSE [st EXCEPT !.counts =
                 DelKey(SetCount(st.counts, foot1,
                                 GetCount(st.counts, foot1) + GetCount(st.counts, item.key)),
                        item.key)]
    ELSE st

RECURSIVE InnerLoop(_, _, _, _)
\* line 404: for foot2, m in list(counts.items()), over the list items
InnerLoop(st, n, foot1, items) ==
    IF items = <<>> THEN st
    ELSE InnerLoop(FoldInto(st, n, foot1, Head(items)), n, foot1, Tail(items))

RECURSIVE OuterLoop(_, _)
\* lines 401-403: for n, foot1 in the sorted list; the inner loop runs over
\* the items counts has when it starts
OuterLoop(st, order) ==
    IF order = <<>> \/ st.raised # "none" THEN st
    ELSE OuterLoop(InnerLoop(st, Head(order).count, Head(order).key, st.counts), Tail(order))

\* lines 400-407: the pass that merges candidates
MergeCandidates(d) == OuterLoop([counts |-> d, raised |-> "none"], SortedReverse(d))

\* lines 393-396: the candidate head is counted
CountHead(d, head) ==
    IF HasKey(d, head) THEN SetCount(d, head, GetCount(d, head) + 1)
    ELSE Append(d, [key |-> head, count |-> 1])

RECURSIVE Tally(_, _)
\* lines 382-398, the walk down the sorted bodies: each head get_common_head
\* returns is reversed, stripped and counted
Tally(d, hs) ==
    IF hs = <<>> THEN d
    ELSE Tally(CountHead(d, CleanFooter(Reverse(Head(hs)))), Tail(hs))

\* candidates[0:number]: a negative number counts from the end of the list
Slice(list, k) ==
    LET stop == IF k < 0 THEN (IF Len(list) + k > 0 THEN Len(list) + k ELSE 0)
                ELSE IF k < Len(list) THEN k ELSE Len(list)
    IN  SubSeq(list, 1, stop)

\* find_footer(messages, number)
FindFooter ==
    /\ candidates = None
    /\ raised = "none"
    /\ IF ReversedSortRaises(messages, seriesorder)
       THEN /\ raised' = "AttributeError"
            /\ UNCHANGED <<tally, counts, candidates>>
       ELSE LET st == MergeCandidates(Tally(<<>>, heads))
            IN  /\ tally' = Tally(<<>>, heads)
                /\ counts' = st.counts
                /\ raised' = st.raised
                /\ candidates' = IF st.raised # "none" THEN None
                                 ELSE Some(Slice(SortedReverse(st.counts), number))
    /\ UNCHANGED <<messages, seriesorder, heads, number>>
    /\ UNCHANGED archvars
    /\ UNCHANGED lsvars

RECURSIVE HeadsUpTo(_)
\* the sequences of at most k heads
HeadsUpTo(k) ==
    IF k = 0 THEN {<<>>}
    ELSE LET shorter == HeadsUpTo(k - 1)
         IN  shorter \cup {Append(hs, h) : hs \in {q \in shorter : Len(q) = k - 1},
                                           h \in RawHeads}

\* find_footer is not called
NoFooter ==
    /\ messages = "Series"
    /\ seriesorder = TRUE
    /\ heads = <<>>
    /\ tally = <<>>
    /\ number = 1
    /\ counts = <<>>
    /\ candidates = None

----------------------------------------------------------------------------
InitWith(tables, clock, maps) ==
    /\ input \in tables
    /\ aliases \in maps
    /\ df = input
    /\ dfcolumns = Columns
    /\ phase = "new"
    /\ data = <<>>
    /\ activity = None
    /\ entities = None
    /\ threads = None
    /\ raised = "none"
    /\ now = clock
    /\ NoListserv
    /\ NoFooter

Init == InitWith(TablesOf(NormRows, MaxRows), Now0, AliasMapsUpToNames)
InitActivity ==
    InitWith(TablesOf(ActivityRows, ActivityTableRows), Now0, AliasMapsUpToNames)

\* the senders of the threads have no aliases
InitThreads == InitWith(TablesOf(ThreadRowSet, ThreadRows), MaxTime, {NoAliases})

\* the table may lack columns
InitSchema ==
    /\ dfcolumns \in SchemaColumnSets
    /\ input \in TablesOf(SchemaRows(dfcolumns), MaxRows)
    /\ df = input
    /\ phase = "new"
    /\ data = <<>>
    /\ activity = None
    /\ entities = None
    /\ threads = None
    /\ raised = "none"
    /\ now = MaxTime
    /\ aliases \in AliasMaps
    /\ NoListserv
    /\ NoFooter

Next ==
    \/ Construct
    \/ GetActivity
    \/ ResolveEntities
    \/ GetThreads
    \/ Tick

Spec == Init /\ [][Next]_vars

\* the calls that read the clock or write the dataset: get_threads writes
\* self.threads only
NextDataset ==
    \/ Construct
    \/ GetActivity
    \/ ResolveEntities
    \/ Tick

SpecDataset == Init /\ [][NextDataset]_vars
SpecResolution == InitActivity /\ [][NextDataset]_vars
SpecActivity == InitActivity /\ [][Next]_vars
SpecThreads == InitThreads /\ [][Next]_vars
SpecSchema == InitSchema /\ [][Next]_vars

\* a message page is read; no Archive is constructed
InitListserv ==
    /\ input = <<>>
    /\ df = <<>>
    /\ dfcolumns = Columns
    /\ phase = "new"
    /\ data = <<>>
    /\ activity = None
    /\ entities = None
    /\ threads = None
    /\ raised = "none"
    /\ now = Now0
    /\ aliases = NoAliases
    /\ page \in Pages
    /\ msg = None
    /\ fetched = <<>>
    /\ dic = None
    /\ NoFooter

NextListserv ==
    \/ FromUrlAny
    \/ ToDictCall

SpecListserv == InitListserv /\ [][NextListserv]_vars

\* find_footer has tallied its candidates; no Archive is constructed
InitFooter ==
    /\ input = <<>>
    /\ df = <<>>
    /\ dfcolumns = Columns
    /\ phase = "new"
    /\ data = <<>>
    /\ activity = None
    /\ entities = None
    /\ threads = None
    /\ raised = "none"
    /\ now = Now0
    /\ aliases = NoAliases
    /\ NoListserv
    /\ messages \in MessageKinds
    /\ seriesorder \in BOOLEAN
    /\ number \in Numbers
    /\ heads \in IF ReversedSortRaises(messages, seriesorder) THEN {<<>>}
                 ELSE HeadsUpTo(MaxPairs)
    /\ tally = <<>>
    /\ counts = <<>>
    /\ candidates = None

NextFooter == FindFooter

SpecFooter == InitFooter /\ [][NextFooter]_vars

----------------------------------------------------------------------------
(* Properties of the canonical dataset *)

\* the instant a raw input row is dated, NaT if it has none
InputDate(k) == ToDatetime(input[k].Date)

\* C1: the canonical dataset of a constructed Archive is sorted ascending by
\* Date: an earlier row never has a later Date than a later row
C1_SortedByDate ==
    phase = "ready" =>
        \A i, j \in 1..Len(data) : i < j => data[i].Date.local <= data[j].Date.local

\* an input of two dated rows, the later one first, both kept
C1_Witness ==
    /\ phase = "ready"
    /\ Len(input) = 2 /\ Len(data) = 2
    /\ InputDate(1).kind = "ts" /\ InputDate(2).kind = "ts"
    /\ InputDate(1).local > InputDate(2).local
    /\ data[1].id = input[2].id

\* C2: no two records of the canonical dataset share an id
C2_UniqueIds ==
    phase = "ready" =>
        \A i, j \in 1..Len(data) : i < j => data[i].id # data[j].id

\* C3: every record of the canonical dataset has a non-null timestamp that is
\* not after the process clock (the clock never runs backwards, so a record
\* that is in the future now was in the future at construction)
C3_PastOrPresent ==
    phase = "ready" =>
        \A i \in 1..Len(data) : data[i].Date.kind = "ts" /\ data[i].Date.local <= now

\* C3 as amended: every record of the canonical dataset has a non-null
\* timestamp, and every input row with a parseable date, future-dated ones
\* included, is kept with that timestamp
C3_NonNullFutureKept ==
    phase = "ready" =>
        /\ \A i \in 1..Len(data) : data[i].Date.kind = "ts"
        /\ \A k \in 1..Len(input) :
             InputDate(k).kind = "ts" =>
                \E i \in 1..Len(data) : data[i].id = input[k].id /\ data[i].Date = InputDate(k)

\* a row without a usable date was dropped and a future-dated row was kept
C3_Witness ==
    /\ phase = "ready"
    /\ \E k \in 1..Len(input) : IsNull(InputDate(k))
    /\ \E i \in 1..Len(data) : data[i].Date.local > now

\* C9: construction fails with MissingDataException whenever no input row has
\* a parseable date (the empty input included), and a constructed Archive
\* never has an empty dataset
C9_EmptyIsFatal ==
    /\ phase = "ready" => data # <<>>
    /\ (phase # "new" /\ \A k \in 1..Len(input) : IsNull(InputDate(k))) =>
          (phase = "failed" /\ raised = "MissingDataException")

\* construction failed on an input whose every row lost its date
C9_Witness ==
    /\ phase = "failed"
    /\ Len(input) >= 2
    /\ \E k \in 1..Len(input) : input[k].Date = BadDate
    /\ \E k \in 1..Len(input) : input[k].Date = NoDate

\* C10: the caller's table is as it was before Archive(df) was called
C10_InputNotMutated ==
    phase # "new" => df = input

----------------------------------------------------------------------------
(* Properties of the activity matrix *)

RECURSIVE SumOver(_, _)
\* the sum of the cells of the set S of a matrix
SumOver(cell, S) ==
    IF S = {} THEN 0
    ELSE LET p == CHOOSE q \in S : TRUE
         IN  cell[p] + SumOver(cell, S \ {p})

MatrixSum(m) == SumOver(m.cell, m.index \X m.columns)

\* C6: whenever the matrix is built, its cells sum to the number of records
\* of the dataset whose timestamp is not after the clock
C6_CellsCountEveryRecord ==
    [][(activity' # activity /\ activity' # None) =>
          MatrixSum(activity'.val) =
             Cardinality({i \in 1..Len(data') : data'[i].Date.local <= now'})]_vars

\* C7, as the claim states it: after a call of resolve_entities has returned,
\* a second call with the same argument and the same cached mapping, whenever
\* it is made, leaves the dataset and the cached matrix as the first call
\* left them
C7_ResolveTwiceAtAnyTime ==
    [][\A inplace \in BOOLEAN :
          (ResolveEntitiesCall(inplace) /\ raised' = "none") =>
             \A t \in now'..(MaxTime + 1) :
                \A o \in ResolveOutcomes(Fields(data', activity', entities'), t, t, inplace) :
                   o.data = data' /\ o.activity = activity']_vars

\* no canonical-entity-id of the mapping is listed as an alias of another
\* entity: the find-and-replace moves no sender twice
Stable(ent) == \A e, e2 \in DOMAIN ent : e \in ent[e2] => e2 = e

\* C7: after a call of resolve_entities whose mapping lists no
\* canonical-entity-id as an alias of another entity, a second call with the
\* same argument that reads the clock as the first call last read it leaves
\* the dataset and the cached matrix as the first call left them
C7_ResolveTwice ==
    [][\A inplace \in BOOLEAN :
          (ResolveEntitiesCall(inplace) /\ (entities' = None \/ Stable(entities'.val))) =>
             \A o \in ResolveOutcomes(Fields(data', activity', entities'),
                                       now', now', inplace) :
                o.data = data' /\ o.activity = activity']_vars

\* resolve_entities has merged two senders of the input into one entity and
\* rebuilt the matrix with the one column
C7_Witness ==
    /\ phase = "ready" /\ raised = "none"
    /\ entities # None /\ activity # None
    /\ Stable(entities.val)
    /\ \E e \in DOMAIN entities.val :
         /\ Cardinality(entities.val[e]) = 2
         /\ \A i \in 1..Len(data) : data[i].From = e
         /\ \E k \in 1..Len(input) : input[k].From # e /\ InputDate(k).kind = "ts"
         /\ activity.val.columns = {e}

\* C20, as the claim states it: a cached matrix is the matrix that
\* compute_activity gives for the dataset now
C20_CacheEqualsComputeNow ==
    activity # None =>
        /\ ~ComputeActivityRaises(data, now)
        /\ activity.val = ComputeActivity(data, now)

\* C20: a cached matrix is never stale with respect to the dataset.  It is
\* the matrix compute_activity gives for the dataset as it is now, at the
\* reading of the clock when the matrix was built; when resolve_entities
\* returns with a matrix, it is the matrix for the dataset it leaves, built
\* by this call
C20_CacheMatchesDataset ==
    [][/\ activity' # None =>
            \E t \in Now0..now' : /\ ~ComputeActivityRaises(data', t)
                                  /\ activity'.val = ComputeActivity(data', t)
       /\ (ResolveEntities /\ activity' # None) =>
            activity'.val = ComputeActivity(data', now')
      ]_vars

\* the entities were resolved and the matrix is cached; since it was built
\* the date of a record has passed, so that the cached matrix is the one
\* compute_activity gave at an earlier reading of the clock and no longer the
\* one it would give now
C20_Witness ==
    /\ activity # None
    /\ entities # None
    /\ ~ComputeActivityRaises(data, now)
    /\ activity.val # ComputeActivity(data, now)
    /\ \E t \in Now0..now : /\ ~ComputeActivityRaises(data, t)
                            /\ activity.val = ComputeActivity(data, t)

----------------------------------------------------------------------------
(* Properties of the forest of threads *)

SuccSet(f, n) == {f.nodes[n].successors[k] : k \in DOMAIN f.nodes[n].successors}

RECURSIVE ReachFrom(_, _, _)
\* the nodes reached from the set S in at most fuel steps along successors
ReachFrom(f, S, fuel) ==
    IF fuel = 0 THEN S
    ELSE ReachFrom(f, S \cup UNION {SuccSet(f, n) : n \in S}, fuel - 1)

Roots(f) == {f.threads[t].root : t \in DOMAIN f.threads}

\* the nodes of the returned forest
Reachable(f) == ReachFrom(f, Roots(f), Len(f.nodes))

\* how often a node is the root of a thread or a successor of a node
Occurrences(f, n) ==
    Cardinality({t \in DOMAIN f.threads : f.threads[t].root = n})
    + Cardinality({pk \in (DOMAIN f.nodes) \X (DOMAIN f.nodes) :
                     /\ pk[2] \in DOMAIN f.nodes[pk[1]].successors
                     /\ f.nodes[pk[1]].successors[pk[2]] = n})

\* the nodes that hold a record; the others are placeholders
RecordNodes(f) == {n \in DOMAIN f.nodes : f.nodes[n].data # None}

\* what identifies a record in the forest (entity resolution rewrites From)
ThreadKey(row) == <<row.id, row.Date, row.InReplyTo>>

RECURSIVE Ancestors(_, _, _)
\* the nodes met from n in at most fuel steps along parent
Ancestors(f, n, fuel) ==
    IF fuel = 0 \/ f.nodes[n].parent = 0 THEN {}
    ELSE {f.nodes[n].parent} \cup Ancestors(f, f.nodes[n].parent, fuel - 1)

\* C4: the forest holds one node per record of the dataset: the record nodes
\* reachable from the roots are as many as the records, each record node is
\* reachable and occurs once, and they hold the records of the dataset
C4_OneNodePerRecord ==
    threads # None =>
        LET f == threads.val
            recs == RecordNodes(f) \cap Reachable(f)
        IN  /\ Cardinality(recs) = Len(data)
            /\ \A n \in RecordNodes(f) : n \in Reachable(f) /\ Occurrences(f, n) = 1
            /\ \A i \in 1..Len(data) :
                 Cardinality({n \in recs : /\ f.nodes[n].id = data[i].id
                                           /\ ThreadKey(f.nodes[n].data.val) = ThreadKey(data[i])})
                 = Cardinality({j \in 1..Len(data) : ThreadKey(data[j]) = ThreadKey(data[i])})

\* three records in a forest that also has a placeholder and two threads
C4_Witness ==
    /\ threads # None
    /\ Len(data) = 3
    /\ Len(threads.val.nodes) > 3
    /\ Len(threads.val.threads) >= 2
    /\ \E n \in DOMAIN threads.val.nodes : Len(threads.val.nodes[n].successors) = 2

\* C5: a node that is no thread root has a parent, is a successor of that
\* parent and of no other node, once; no node is its own ancestor
C5_Forest ==
    threads # None =>
        LET f == threads.val
        IN  \A n \in DOMAIN f.nodes :
              /\ n \notin Roots(f) =>
                   /\ f.nodes[n].parent # 0
                   /\ n \in SuccSet(f, f.nodes[n].parent)
                   /\ \A p \in DOMAIN f.nodes : n \in SuccSet(f, p) => p = f.nodes[n].parent
                   /\ Occurrences(f, n) = 1
              /\ n \notin Ancestors(f, n, Len(f.nodes))

\* a forest with a chain of two replies below a placeholder and a record
\* whose id is also the id of another node
C5_Witness ==
    /\ threads # None
    /\ LET f == threads.val
       IN  /\ \E n \in DOMAIN f.nodes :
                /\ f.nodes[n].parent # 0
                /\ f.nodes[f.nodes[n].parent].parent # 0
                /\ f.nodes[f.nodes[f.nodes[n].parent].parent].data = None
           /\ \E n, m \in DOMAIN f.nodes : n # m /\ f.nodes[n].id = f.nodes[m].id

\* C8: a record whose In-Reply-To is its own id is not in the forest: no
\* node holds it
C8_SelfReplyExcluded ==
    threads # None =>
        \A n \in DOMAIN threads.val.nodes :
            threads.val.nodes[n].data # None =>
                threads.val.nodes[n].data.val.InReplyTo # threads.val.nodes[n].id

\* C11: once get_threads has built the forest, no later call of get_threads,
\* get_activity or resolve_entities, in any order, changes it: the kept
\* forest is returned as it is and no node or thread is created
C11_ThreadsCached == [][threads # None => threads' = threads]_vars

\* the forest was built, resolve_entities then rewrote a sender, and the kept
\* forest still holds the rows as they were when it was built
C11_Witness ==
    /\ threads # None
    /\ entities # None
    /\ Len(threads.val.nodes) = Len(data)
    /\ \E n \in DOMAIN data : /\ threads.val.nodes[n].data # None
                              /\ threads.val.nodes[n].data.val.id = data[n].id
                              /\ threads.val.nodes[n].data.val.From # data[n].From


----------------------------------------------------------------------------
(* Properties of construction *)

\* the k-th input record after the conversion of its Date
Converted(k) == [input[k] EXCEPT !.Date = ToDatetime(@)]

\* the input records with a valid timestamp
ValidInputs == {k \in DOMAIN input : InputDate(k).kind = "ts"}

\* C12: construction removes exact duplicates.  In the dataset as it is
\* constructed, every input record with a valid timestamp occurs exactly
\* once however often the input holds it, and the length of the dataset is
\* the number of distinct such records: each extra copy lowers the length by
\* one and no other record is lost
C12_ExactDuplicatesRemoved ==
    (phase = "ready" /\ entities = None) =>
        /\ \A k \in ValidInputs :
              Cardinality({i \in DOMAIN data : data[i] = Converted(k)}) = 1
        /\ Len(data) = Cardinality({Converted(k) : k \in ValidInputs})

\* an input that holds one validly dated record twice was constructed
C12_Witness ==
    /\ phase = "ready"
    /\ entities = None
    /\ Len(input) = 2
    /\ input[1] = input[2]
    /\ Len(data) = 1
    /\ data[1] = Converted(1)


\* C14: a defect of the timestamp of one record costs that record only.  If
\* at least one input record has a valid timestamp, the construction
\* succeeds, no record with an absent or unparseable timestamp is in the
\* dataset, and every record with a valid timestamp is in it
C14_TimestampDefectsRecovered ==
    (phase # "new" /\ ValidInputs # {}) =>
        /\ phase = "ready"
        /\ \A i \in DOMAIN data :
              /\ data[i].Date.kind = "ts"
              /\ \E k \in ValidInputs : /\ data[i].id = input[k].id
                                        /\ data[i].Date = InputDate(k)
        /\ \A k \in ValidInputs :
              \E i \in DOMAIN data : /\ data[i].id = input[k].id
                                     /\ data[i].Date = InputDate(k)
                                     /\ entities = None => data[i] = Converted(k)

\* a table of one record without a usable timestamp and one record with a
\* valid one was constructed; the dataset holds the second record alone
C14_Witness ==
    /\ phase = "ready"
    /\ Len(input) = 2
    /\ Cardinality(ValidInputs) = 1
    /\ Len(data) = 1
    /\ \E k \in ValidInputs : data[1] = Converted(k)

\* C13: a table that lacks a required column (Message-ID or Date) is never
\* constructed into an Archive: the construction does not succeed on it
C13_MissingFieldIsFatal == dfcolumns # Columns => phase # "ready"


----------------------------------------------------------------------------
(* Properties of the steps of get_threads *)

\* nodes, threads and visited when the loop of get_threads has processed the
\* first k records of the dataset
ForestAt(k) == BuildThreads(SubSeq(data, 1, k))

\* C15: a record that replies to an id which is not in visited gets a
\* placeholder root that holds that id and no record, with the node of the
\* record as its only child; one thread of unknown root is appended for the
\* placeholder; visited records the placeholder under the id replied to and
\* the child under the id of the record (written second, so that it is the
\* entry that stays if the two ids are the same); nothing else changes
C15_PlaceholderRoot ==
    phase = "ready" =>
      \A k \in DOMAIN data :
        LET pre == ForestAt(k - 1)
            post == ForestAt(k)
            row == data[k]
            root == Len(pre.nodes) + 1
            succ == Len(pre.nodes) + 2
        IN  (row.InReplyTo # Sentinel /\ row.InReplyTo \notin DOMAIN pre.visited) =>
              /\ Len(post.nodes) = Len(pre.nodes) + 2
              /\ SubSeq(post.nodes, 1, Len(pre.nodes)) = pre.nodes
              /\ post.nodes[root] = [id |-> row.InReplyTo, data |-> None,
                                     parent |-> 0, successors |-> <<succ>>]
              /\ post.nodes[succ] = [id |-> row.id, data |-> Some(row),
                                     parent |-> root, successors |-> <<>>]
              /\ post.threads = Append(pre.threads, [root |-> root, known_root |-> FALSE])
              /\ DOMAIN post.visited = DOMAIN pre.visited \cup {row.InReplyTo, row.id}
              /\ post.visited[row.id] = succ
              /\ row.InReplyTo # row.id => post.visited[row.InReplyTo] = root
              /\ \A key \in DOMAIN pre.visited \ {row.id} :
                    post.visited[key] = pre.visited[key]
              /\ threads # None =>
                    /\ threads.val.threads[Len(post.threads)] = [root |-> root, known_root |-> FALSE]
                    /\ threads.val.nodes[root].id = row.InReplyTo
                    /\ threads.val.nodes[root].data = None
                    /\ threads.val.nodes[succ].parent = root
                    /\ succ \in SuccSet(threads.val, root)

\* the forest of the records m1, m2 replying to m1, and m3 replying to m5,
\* which is the id of no record: two threads, the second under a placeholder
\* m5 whose only child is the node of m3
C15_Witness ==
    /\ threads # None
    /\ Len(data) = 3
    /\ <<data[1].id, data[2].id, data[3].id>> = <<"m1", "m2", "m3">>
    /\ <<data[1].InReplyTo, data[2].InReplyTo, data[3].InReplyTo>> = <<Sentinel, "m1", "m5">>
    /\ Len(threads.val.threads) = 2
    /\ LET t == threads.val.threads[2]
           r == threads.val.nodes[t.root]
       IN  /\ ~t.known_root
           /\ r.id = "m5"
           /\ r.data = None
           /\ Len(r.successors) = 1
           /\ threads.val.nodes[r.successors[1]].id = "m3"


\* C16: a record that carries the no-parent sentinel gets a new root node
\* that holds it, visited records the node under the id of the record, and
\* one thread of known root is appended; nothing else changes.  In the forest
\* get_threads keeps, a thread is of known root exactly if its root holds a
\* record and that record carries the sentinel
C16_SentinelRoot ==
    phase = "ready" =>
      /\ \A k \in DOMAIN data :
            LET pre == ForestAt(k - 1)
                post == ForestAt(k)
                row == data[k]
                root == Len(pre.nodes) + 1
            IN  row.InReplyTo = Sentinel =>
                  /\ post.nodes = Append(pre.nodes, [id |-> row.id, data |-> Some(row),
                                                     parent |-> 0, successors |-> <<>>])
                  /\ post.threads = Append(pre.threads, [root |-> root, known_root |-> TRUE])
                  /\ DOMAIN post.visited = DOMAIN pre.visited \cup {row.id}
                  /\ post.visited[row.id] = root
                  /\ \A key \in DOMAIN pre.visited \ {row.id} :
                        post.visited[key] = pre.visited[key]
      /\ threads # None =>
            \A t \in DOMAIN threads.val.threads :
              LET r == threads.val.nodes[threads.val.threads[t].root]
              IN  threads.val.threads[t].known_root <=>
                    (r.data # None /\ r.data.val.InReplyTo = Sentinel)

\* a kept forest with a thread of known root, whose root holds a record with
\* the sentinel, and a thread of unknown root
C16_Witness ==
    /\ threads # None
    /\ \E t, u \in DOMAIN threads.val.threads :
          /\ threads.val.threads[t].known_root
          /\ threads.val.nodes[threads.val.threads[t].root].data # None
          /\ threads.val.nodes[threads.val.threads[t].root].data.val.InReplyTo = Sentinel
          /\ ~threads.val.threads[u].known_root


\* C18: a record that replies to an id which is in visited gets a new node
\* whose parent is the node visited holds for that id; the new node becomes
\* the last child of the parent, visited records it under the id of the
\* record, and no thread is added; nothing else changes.  In the forest
\* get_threads keeps, the children of every node stand in the order in which
\* their records were processed
C18_AttachToKnownParent ==
    phase = "ready" =>
      /\ \A k \in DOMAIN data :
            LET pre == ForestAt(k - 1)
                post == ForestAt(k)
                row == data[k]
                node == Len(pre.nodes) + 1
            IN  (row.InReplyTo # Sentinel /\ row.InReplyTo \in DOMAIN pre.visited) =>
                  LET parent == pre.visited[row.InReplyTo]
                  IN  /\ Len(post.nodes) = Len(pre.nodes) + 1
                      /\ post.nodes[node] = [id |-> row.id, data |-> Some(row),
                                             parent |-> parent, successors |-> <<>>]
                      /\ post.nodes[parent] =
                            [pre.nodes[parent] EXCEPT !.successors = Append(@, node)]
                      /\ \A n \in DOMAIN pre.nodes \ {parent} : post.nodes[n] = pre.nodes[n]
                      /\ post.threads = pre.threads
                      /\ DOMAIN post.visited = DOMAIN pre.visited \cup {row.id}
                      /\ post.visited[row.id] = node
                      /\ \A key \in DOMAIN pre.visited \ {row.id} :
                            post.visited[key] = pre.visited[key]
      /\ threads # None =>
            \A n \in DOMAIN threads.val.nodes :
              LET succ == threads.val.nodes[n].successors
              IN  \A a, b \in DOMAIN succ : a < b => succ[a] < succ[b]

\* a kept forest in which two records reply to the same known record: the
\* node of the record processed first is the first child
C18_Witness ==
    /\ threads # None
    /\ Len(threads.val.threads) = 1
    /\ \E n \in DOMAIN threads.val.nodes :
          /\ threads.val.nodes[n].data # None
          /\ Len(threads.val.nodes[n].successors) = 2
          /\ threads.val.nodes[n].successors[1] < threads.val.nodes[n].successors[2]
          /\ threads.val.nodes[threads.val.nodes[n].successors[1]].parent = n
          /\ threads.val.nodes[threads.val.nodes[n].successors[2]].parent = n

\* the node made for the k-th record of the dataset: the last node its step makes
NodeOf(k) == Len(ForestAt(k).nodes)

\* C19: a placeholder is never filled in.  In the forest get_threads keeps, a
\* placeholder made for an id holds no record, also if a record with that id
\* is processed later; every such record has a node of its own, which is not
\* the placeholder and holds the record
C19_PlaceholderNotBackfilled ==
    (phase = "ready" /\ threads # None) =>
      \A k \in DOMAIN data :
        LET pre == ForestAt(k - 1)
            placeholder == Len(pre.nodes) + 1
        IN  (data[k].InReplyTo # Sentinel /\ data[k].InReplyTo \notin DOMAIN pre.visited) =>
              /\ threads.val.nodes[placeholder].id = data[k].InReplyTo
              /\ threads.val.nodes[placeholder].data = None
              /\ \A j \in (k + 1)..Len(data) :
                    data[j].id = data[k].InReplyTo =>
                      /\ NodeOf(j) # placeholder
                      /\ NodeOf(j) \in DOMAIN threads.val.nodes
                      /\ threads.val.nodes[NodeOf(j)].id = data[j].id
                      /\ threads.val.nodes[NodeOf(j)].data = Some(data[j])

\* a kept forest with a placeholder and the node of a record that was
\* processed later and has the id of the placeholder
C19_Witness ==
    /\ threads # None
    /\ \E k, j \in DOMAIN data :
          /\ k < j
          /\ data[j].id = data[k].InReplyTo
          /\ data[k].id # data[j].id
          /\ data[k].InReplyTo \notin DOMAIN ForestAt(k - 1).visited
          /\ threads.val.nodes[NodeOf(k) - 1].data = None
          /\ threads.val.nodes[NodeOf(k) - 1].id = data[j].id
          /\ threads.val.nodes[NodeOf(j)].data = Some(data[j])

\* C22: at every point of the loop of get_threads, visited holds for each id
\* the node made last of the nodes with that id.  So in the forest
\* get_threads keeps, if a placeholder was made for an id and a record with
\* that id was processed later: every reply to the id that is processed after
\* the record hangs under a node that holds a record and not under the
\* placeholder; no child of the placeholder was made after the node of the
\* record (the node of the record is itself a child of the placeholder if
\* the record replies to its own id); and if the record carries the sentinel, there is a
\* thread of unknown root and a thread of known root whose roots both have
\* the id
C22_VisitedHoldsLatestNode ==
    phase = "ready" =>
      /\ \A k \in 0..Len(data) :
            LET st == ForestAt(k)
            IN  /\ DOMAIN st.visited = {st.nodes[n].id : n \in DOMAIN st.nodes}
                /\ \A key \in DOMAIN st.visited :
                      /\ st.nodes[st.visited[key]].id = key
                      /\ \A n \in DOMAIN st.nodes :
                            st.nodes[n].id = key => n <= st.visited[key]
      /\ threads # None =>
            \A k, j \in DOMAIN data :
              LET pre == ForestAt(k - 1)
                  placeholder == Len(pre.nodes) + 1
                  X == data[k].InReplyTo
                  f == threads.val
              IN  (/\ k < j
                   /\ X # Sentinel
                   /\ X \notin DOMAIN pre.visited
                   /\ data[j].id = X) =>
                    /\ ForestAt(j).visited[X] = NodeOf(j)
                    /\ \A i \in (j + 1)..Len(data) :
                          data[i].InReplyTo = X =>
                            /\ f.nodes[NodeOf(i)].parent # placeholder
                            /\ f.nodes[NodeOf(i)].parent >= NodeOf(j)
                            /\ f.nodes[f.nodes[NodeOf(i)].parent].id = X
                            /\ f.nodes[f.nodes[NodeOf(i)].parent].data # None
                    /\ \A c \in SuccSet(f, placeholder) : c <= NodeOf(j)
                    /\ data[j].InReplyTo = Sentinel =>
                          \E t, u \in DOMAIN f.threads :
                            /\ f.threads[t].root = placeholder
                            /\ ~f.threads[t].known_root
                            /\ f.threads[u].root = NodeOf(j)
                            /\ f.threads[u].known_root
                            /\ f.nodes[placeholder].id = X
                            /\ f.nodes[NodeOf(j)].id = X

\* a kept forest of a reply to an id, then the record with that id, which
\* carries the sentinel, then another reply to the id: two threads with
\* roots of the same id; the first reply hangs under the placeholder and the
\* second under the node of the record
C22_Witness ==
    /\ threads # None
    /\ Len(data) = 3
    /\ data[1].InReplyTo = data[2].id
    /\ data[2].InReplyTo = Sentinel
    /\ data[3].InReplyTo = data[2].id
    /\ data[1].id # data[2].id
    /\ Len(threads.val.threads) = 2
    /\ threads.val.nodes[1].data = None
    /\ threads.val.nodes[1].successors = <<2>>
    /\ threads.val.nodes[3].id = threads.val.nodes[1].id
    /\ threads.val.nodes[3].successors = <<4>>
    /\ threads.val.nodes[4].parent = 3
    /\ ~threads.val.threads[1].known_root
    /\ threads.val.threads[2].known_root

----------------------------------------------------------------------------
(* Properties of ListservMessage *)

\* C17: from_url honours the selector.  A call with fields = "header"
\* requests the message page alone, and the message it returns has no body
\* and every header field; the message a call with fields = "body" returns
\* has None in every header field; the message a call with fields = "total"
\* returns has a body and every header field; to_dict returns a dictionary
\* of exactly the 8 keys, with the values of the message
C17_FieldsSelector ==
    [][/\ FromUrlCall("header") =>
            /\ fetched' = <<"message">>
            /\ msg' # None => /\ msg'.val["Body"] = None
                              /\ \A k \in HeaderKeys : msg'.val[k] # None
       /\ (FromUrlCall("body") /\ msg' # None) =>
            \A k \in HeaderKeys : msg'.val[k] = None
       /\ (FromUrlCall("total") /\ msg' # None) =>
            /\ msg'.val["Body"] # None
            /\ \A k \in HeaderKeys : msg'.val[k] # None
       /\ ToDictCall =>
            /\ DOMAIN dic'.val = {"Body"} \cup HeaderKeys
            /\ Cardinality(DOMAIN dic'.val) = 8
            /\ \A k \in DOMAIN dic'.val : dic'.val[k] = msg.val[k]
      ]_vars

\* a page with a plain-text part was read with fields = "header": the
\* message has its header fields and no body, the plain-text page was not
\* requested, and to_dict gave the 8 keys
C17_Witness ==
    /\ page.plain = "pre"
    /\ msg # None
    /\ msg.val["Body"] = None
    /\ msg.val["Subject"] # None
    /\ fetched = <<"message">>
    /\ dic # None
    /\ Cardinality(DOMAIN dic.val) = 8
    /\ dic.val["Body"] = None


----------------------------------------------------------------------------
(* Properties of find_footer *)

\* find_footer has ended
FooterEnded == candidates # None \/ raised # "none"

\* find_footer has ended and had reached the merge pass of lines 400-407
PassEnded == FooterEnded /\ raised # "AttributeError"

RECURSIVE DictTotal(_)
\* the sum of the counts of a dictionary
DictTotal(d) == IF d = <<>> THEN 0 ELSE d[1].count + DictTotal(Tail(d))

\* the items of a dictionary
Items(d) == {d[i] : i \in 1..Len(d)}

\* in the tally, s is a non-empty substring of the other candidate l and has
\* the strictly higher count
Subsumes(s, l) ==
    /\ s.key # l.key
    /\ Len(s.key) > 0
    /\ IsSubstring(s.key, l.key)
    /\ s.count > l.count

\* of the candidates that subsume l in the tally, the one with the highest
\* count and, among those of that count, the greatest string
Owner(l) ==
    CHOOSE s \in Items(tally) :
        /\ Subsumes(s, l)
        /\ \A t \in Items(tally) : (Subsumes(t, l) /\ t # s) => TupleGreater(s, t)

\* of n candidates, the number a result for the argument k holds: the top k
\* if there are as many; for a negative k all but the last -k
Kept(k, n) ==
    IF k < 0 THEN (IF n + k > 0 THEN n + k ELSE 0) ELSE IF k < n THEN k ELSE n

\* the list is the first k items of the dictionary d in descending order of
\* count and, for equal counts, of string
IsTop(list, d, k) ==
    /\ Len(list) = k
    /\ \A i \in 1..Len(list) : list[i] \in Items(d)
    /\ \A i, j \in 1..Len(list) : i < j => TupleGreater(list[i], list[j])
    /\ \A it \in Items(d) :
          (\A i \in 1..Len(list) : list[i] # it) =>
             \A i \in 1..Len(list) : TupleGreater(list[i], it)

\* C21, as the claim states it: the pass does not fail; of any two candidates
\* of which one subsumes the other, the longer is dropped and the shorter is
\* kept with the count of the longer added to its own; the total of the
\* counts is preserved; the result is the top of the merged counts
C21_EveryPairFolded ==
    PassEnded =>
        /\ raised = "none"
        /\ \A s, l \in Items(tally) :
              Subsumes(s, l) =>
                 /\ ~HasKey(counts, l.key)
                 /\ HasKey(counts, s.key)
                 /\ GetCount(counts, s.key) >= s.count + l.count
        /\ DictTotal(counts) = DictTotal(tally)
        /\ IsTop(candidates.val, counts, Kept(number, Len(counts)))

\* C21: whenever the merge pass is reached it does not fail.  A candidate is dropped exactly if another
\* candidate subsumes it in the tally: is a non-empty substring of it with a
\* strictly higher count there.  The count of a dropped candidate is added
\* once, to the candidate with the highest count of those that subsume it,
\* which is kept; the total of the counts is preserved, and the result is
\* the top number candidates in descending order of the merged counts (for a
\* negative number, all candidates in that order but the last -number)
C21_MergePass ==
    PassEnded =>
        /\ raised = "none"
        /\ \A l \in Items(tally) :
              HasKey(counts, l.key) <=> ~\E s \in Items(tally) : Subsumes(s, l)
        /\ \A k \in Items(counts) :
              /\ HasKey(tally, k.key)
              /\ k.count = GetCount(tally, k.key)
                    + DictTotal(SelectSeq(tally, LAMBDA l :
                          /\ \E s \in Items(tally) : Subsumes(s, l)
                          /\ Owner(l).key = k.key))
        /\ DictTotal(counts) = DictTotal(tally)
        /\ IsTop(candidates.val, counts, Kept(number, Len(counts)))

\* find_footer has ended on a tally in which two candidates subsume a
\* third: the third was dropped and its count went to one of the two
C21_Witness ==
    /\ candidates # None
    /\ Len(tally) = 3
    /\ Len(counts) = 2
    /\ \E s, t, l \in Items(tally) :
          /\ s # t
          /\ Subsumes(s, l)
          /\ Subsumes(t, l)
          /\ Owner(l) = s
          /\ GetCount(counts, s.key) = s.count + l.count
          /\ GetCount(counts, t.key) = t.count
          /\ candidates.val[1] = [key |-> s.key, count |-> s.count + l.count]

============================================================================
